---------------------------- MODULE Spec2Model ----------------------------
(***************************************************************************)
(* The typing-speed widget of src/src/App.tsx (the React component         *)
(* TypingSpeedApp) as a state machine.                                     *)
(*                                                                         *)
(* Strings are sequences of one-character strings.  Times are integers in  *)
(* milliseconds, as Date.now() returns them; the code's timeElapsed, in    *)
(* seconds, is kept as the millisecond difference el (timeElapsed =        *)
(* el/1000), and every expression of the code over timeElapsed is written  *)
(* over el with exact integer arithmetic.  The accuracy, which the code    *)
(* rounds to two decimals, is kept in hundredths of a percent.             *)
(***************************************************************************)
EXTENDS Integers, Sequences, FiniteSets, TLC

(***************************************************************************)
(* Bounds of the model.                                                    *)
(***************************************************************************)
\* Spec: the clock stops after this many half seconds, and the user starts
\* at most this many tests.
MaxHalfSeconds == 1
MaxSessions == 2
\* SpecHist: the clock stops after this many seconds, and the user starts at
\* most this many tests.
MaxHistSeconds == 1
MaxHistSessions == 22
\* SpecStats: the clock stops after this many half seconds.
MaxStatsHalfSeconds == 5
\* SpecTimed: the clock stops after this many steps of 7.5 seconds; SpecPause:
\* after this many steps of 5 seconds.
MaxTimedSteps == 3
\* SpecSamples: the clock stops after this many steps of 2 seconds.
MaxSampleSteps == 2

MaxNow == MaxHalfSeconds * 500

(***************************************************************************)
(* Program constants.                                                      *)
(***************************************************************************)
\* .slice(0, 20): the results kept
HistoryLimit == 20

TestStates == {"idle", "active", "completed", "paused"}
Difficulties == {"easy", "medium", "hard", "custom"}
TestModes == {"time", "words", "quote"}
\* the <option> values of the Duration and Word Count selects
TargetTimeOptions == {15, 30, 60, 120, 300}
TargetWordsOptions == {25, 50, 100, 200}

(***************************************************************************)
(* sampleTexts, character by character.                                    *)
(***************************************************************************)
\* src/src/App.tsx:33  (97 characters)
sampleEasy1 ==
    << "T", "h", "e", " ", "q", "u", "i", "c", "k", " ", "b", "r", "o", "w", "n", " ",
       "f", "o", "x", " ", "j", "u", "m", "p", "s", " ", "o", "v", "e", "r", " ", "t",
       "h", "e", " ", "l", "a", "z", "y", " ", "d", "o", "g", ".", " ", "T", "h", "i",
       "s", " ", "s", "e", "n", "t", "e", "n", "c", "e", " ", "c", "o", "n", "t", "a",
       "i", "n", "s", " ", "e", "v", "e", "r", "y", " ", "l", "e", "t", "t", "e", "r",
       " ", "o", "f", " ", "t", "h", "e", " ", "a", "l", "p", "h", "a", "b", "e", "t",
       "." >>

\* src/src/App.tsx:34  (94 characters)
sampleEasy2 ==
    << "A", " ", "j", "o", "u", "r", "n", "e", "y", " ", "o", "f", " ", "a", " ", "t",
       "h", "o", "u", "s", "a", "n", "d", " ", "m", "i", "l", "e", "s", " ", "b", "e",
       "g", "i", "n", "s", " ", "w", "i", "t", "h", " ", "a", " ", "s", "i", "n", "g",
       "l", "e", " ", "s", "t", "e", "p", ".", " ", "E", "v", "e", "r", "y", " ", "g",
       "r", "e", "a", "t", " ", "a", "c", "h", "i", "e", "v", "e", "m", "e", "n", "t",
       " ", "s", "t", "a", "r", "t", "s", " ", "s", "m", "a", "l", "l", "." >>

\* src/src/App.tsx:35  (86 characters)
sampleEasy3 ==
    << "L", "i", "f", "e", " ", "i", "s", " ", "w", "h", "a", "t", " ", "h", "a", "p",
       "p", "e", "n", "s", " ", "w", "h", "e", "n", " ", "y", "o", "u", " ", "a", "r",
       "e", " ", "b", "u", "s", "y", " ", "m", "a", "k", "i", "n", "g", " ", "o", "t",
       "h", "e", "r", " ", "p", "l", "a", "n", "s", ".", " ", "S", "t", "a", "y", " ",
       "p", "r", "e", "s", "e", "n", "t", " ", "i", "n", " ", "t", "h", "e", " ", "m",
       "o", "m", "e", "n", "t", "." >>

\* src/src/App.tsx:36  (80 characters)
sampleEasy4 ==
    << "T", "h", "e", " ", "o", "n", "l", "y", " ", "w", "a", "y", " ", "t", "o", " ",
       "d", "o", " ", "g", "r", "e", "a", "t", " ", "w", "o", "r", "k", " ", "i", "s",
       " ", "t", "o", " ", "l", "o", "v", "e", " ", "w", "h", "a", "t", " ", "y", "o",
       "u", " ", "d", "o", ".", " ", "P", "a", "s", "s", "i", "o", "n", " ", "d", "r",
       "i", "v", "e", "s", " ", "e", "x", "c", "e", "l", "l", "e", "n", "c", "e", "." >>

\* src/src/App.tsx:39  (186 characters)
sampleMedium1 ==
    << "T", "e", "c", "h", "n", "o", "l", "o", "g", "y", " ", "h", "a", "s", " ", "r",
       "e", "v", "o", "l", "u", "t", "i", "o", "n", "i", "z", "e", "d", " ", "t", "h",
       "e", " ", "w", "a", "y", " ", "w", "e", " ", "c", "o", "m", "m", "u", "n", "i",
       "c", "a", "t", "e", " ", "a", "n", "d", " ", "i", "n", "t", "e", "r", "a", "c",
       "t", " ", "w", "i", "t", "h", " ", "t", "h", "e", " ", "w", "o", "r", "l", "d",
       " ", "a", "r", "o", "u", "n", "d", " ", "u", "s", ".", " ", "F", "r", "o", "m",
       " ", "s", "m", "a", "r", "t", "p", "h", "o", "n", "e", "s", " ", "t", "o", " ",
       "s", "o", "c", "i", "a", "l", " ", "m", "e", "d", "i", "a", ",", " ", "d", "i",
       "g", "i", "t", "a", "l", " ", "i", "n", "n", "o", "v", "a", "t", "i", "o", "n",
       " ", "c", "o", "n", "t", "i", "n", "u", "e", "s", " ", "t", "o", " ", "s", "h",
       "a", "p", "e", " ", "o", "u", "r", " ", "d", "a", "i", "l", "y", " ", "e", "x",
       "p", "e", "r", "i", "e", "n", "c", "e", "s", "." >>

\* src/src/App.tsx:40  (152 characters)
sampleMedium2 ==
    << "S", "u", "c", "c", "e", "s", "s", " ", "i", "s", " ", "n", "o", "t", " ", "f",
       "i", "n", "a", "l", ",", " ", "f", "a", "i", "l", "u", "r", "e", " ", "i", "s",
       " ", "n", "o", "t", " ", "f", "a", "t", "a", "l", ":", " ", "i", "t", " ", "i",
       "s", " ", "t", "h", "e", " ", "c", "o", "u", "r", "a", "g", "e", " ", "t", "o",
       " ", "c", "o", "n", "t", "i", "n", "u", "e", " ", "t", "h", "a", "t", " ", "c",
       "o", "u", "n", "t", "s", ".", " ", "R", "e", "s", "i", "l", "i", "e", "n", "c",
       "e", " ", "a", "n", "d", " ", "p", "e", "r", "s", "e", "v", "e", "r", "a", "n",
       "c", "e", " ", "a", "r", "e", " ", "t", "h", "e", " ", "k", "e", "y", "s", " ",
       "t", "o", " ", "o", "v", "e", "r", "c", "o", "m", "i", "n", "g", " ", "o", "b",
       "s", "t", "a", "c", "l", "e", "s", "." >>

\* src/src/App.tsx:41  (144 characters)
sampleMedium3 ==
    << "T", "h", "e", " ", "b", "e", "s", "t", " ", "t", "i", "m", "e", " ", "t", "o",
       " ", "p", "l", "a", "n", "t", " ", "a", " ", "t", "r", "e", "e", " ", "w", "a",
       "s", " ", "t", "w", "e", "n", "t", "y", " ", "y", "e", "a", "r", "s", " ", "a",
       "g", "o", ".", " ", "T", "h", "e", " ", "s", "e", "c", "o", "n", "d", " ", "b",
       "e", "s", "t", " ", "t", "i", "m", "e", " ", "i", "s", " ", "n", "o", "w", ".",
       " ", "T", "a", "k", "i", "n", "g", " ", "a", "c", "t", "i", "o", "n", " ", "t",
       "o", "d", "a", "y", " ", "i", "s", " ", "a", "l", "w", "a", "y", "s", " ", "b",
       "e", "t", "t", "e", "r", " ", "t", "h", "a", "n", " ", "w", "a", "i", "t", "i",
       "n", "g", " ", "f", "o", "r", " ", "t", "o", "m", "o", "r", "r", "o", "w", "." >>

\* src/src/App.tsx:42  (160 characters)
sampleMedium4 ==
    << "I", "n", "n", "o", "v", "a", "t", "i", "o", "n", " ", "d", "i", "s", "t", "i",
       "n", "g", "u", "i", "s", "h", "e", "s", " ", "b", "e", "t", "w", "e", "e", "n",
       " ", "a", " ", "l", "e", "a", "d", "e", "r", " ", "a", "n", "d", " ", "a", " ",
       "f", "o", "l", "l", "o", "w", "e", "r", " ", "i", "n", " ", "t", "o", "d", "a",
       "y", "'", "s", " ", "c", "o", "m", "p", "e", "t", "i", "t", "i", "v", "e", " ",
       "l", "a", "n", "d", "s", "c", "a", "p", "e", ".", " ", "C", "r", "e", "a", "t",
       "i", "v", "e", " ", "t", "h", "i", "n", "k", "i", "n", "g", " ", "a", "n", "d",
       " ", "b", "o", "l", "d", " ", "d", "e", "c", "i", "s", "i", "o", "n", "s", " ",
       "s", "e", "p", "a", "r", "a", "t", "e", " ", "t", "h", "e", " ", "b", "e", "s",
       "t", " ", "f", "r", "o", "m", " ", "t", "h", "e", " ", "r", "e", "s", "t", "." >>

\* src/src/App.tsx:45  (186 characters)
sampleHard1 ==
    << "P", "s", "e", "u", "d", "o", "p", "s", "e", "u", "d", "o", "h", "y", "p", "o",
       "p", "a", "r", "a", "t", "h", "y", "r", "o", "i", "d", "i", "s", "m", " ", "i",
       "s", " ", "a", "n", " ", "e", "x", "t", "r", "e", "m", "e", "l", "y", " ", "r",
       "a", "r", "e", " ", "g", "e", "n", "e", "t", "i", "c", " ", "d", "i", "s", "o",
       "r", "d", "e", "r", " ", "t", "h", "a", "t", " ", "a", "f", "f", "e", "c", "t",
       "s", " ", "c", "a", "l", "c", "i", "u", "m", " ", "a", "n", "d", " ", "p", "h",
       "o", "s", "p", "h", "a", "t", "e", " ", "m", "e", "t", "a", "b", "o", "l", "i",
       "s", "m", ",", " ", "c", "h", "a", "r", "a", "c", "t", "e", "r", "i", "z", "e",
       "d", " ", "b", "y", " ", "r", "e", "s", "i", "s", "t", "a", "n", "c", "e", " ",
       "t", "o", " ", "p", "a", "r", "a", "t", "h", "y", "r", "o", "i", "d", " ", "h",
       "o", "r", "m", "o", "n", "e", " ", "s", "i", "g", "n", "a", "l", "i", "n", "g",
       " ", "p", "a", "t", "h", "w", "a", "y", "s", "." >>

\* src/src/App.tsx:46  (188 characters)
sampleHard2 ==
    << "T", "h", "e", " ", "p", "h", "e", "n", "o", "m", "e", "n", "o", "n", " ", "o",
       "f", " ", "q", "u", "a", "n", "t", "u", "m", " ", "e", "n", "t", "a", "n", "g",
       "l", "e", "m", "e", "n", "t", " ", "d", "e", "m", "o", "n", "s", "t", "r", "a",
       "t", "e", "s", " ", "t", "h", "e", " ", "f", "u", "n", "d", "a", "m", "e", "n",
       "t", "a", "l", " ", "i", "n", "t", "e", "r", "c", "o", "n", "n", "e", "c", "t",
       "e", "d", "n", "e", "s", "s", " ", "o", "f", " ", "p", "a", "r", "t", "i", "c",
       "l", "e", "s", " ", "a", "c", "r", "o", "s", "s", " ", "v", "a", "s", "t", " ",
       "d", "i", "s", "t", "a", "n", "c", "e", "s", ",", " ", "c", "h", "a", "l", "l",
       "e", "n", "g", "i", "n", "g", " ", "o", "u", "r", " ", "c", "l", "a", "s", "s",
       "i", "c", "a", "l", " ", "u", "n", "d", "e", "r", "s", "t", "a", "n", "d", "i",
       "n", "g", " ", "o", "f", " ", "r", "e", "a", "l", "i", "t", "y", " ", "a", "n",
       "d", " ", "c", "a", "u", "s", "a", "t", "i", "o", "n", "." >>

\* src/src/App.tsx:47  (182 characters)
sampleHard3 ==
    << "A", "n", "t", "i", "d", "i", "s", "e", "s", "t", "a", "b", "l", "i", "s", "h",
       "m", "e", "n", "t", "a", "r", "i", "a", "n", "i", "s", "m", " ", "r", "e", "p",
       "r", "e", "s", "e", "n", "t", "s", " ", "t", "h", "e", " ", "p", "h", "i", "l",
       "o", "s", "o", "p", "h", "i", "c", "a", "l", " ", "o", "p", "p", "o", "s", "i",
       "t", "i", "o", "n", " ", "t", "o", " ", "t", "h", "e", " ", "w", "i", "t", "h",
       "d", "r", "a", "w", "a", "l", " ", "o", "f", " ", "s", "t", "a", "t", "e", " ",
       "s", "u", "p", "p", "o", "r", "t", " ", "f", "r", "o", "m", " ", "e", "s", "t",
       "a", "b", "l", "i", "s", "h", "e", "d", " ", "r", "e", "l", "i", "g", "i", "o",
       "u", "s", " ", "i", "n", "s", "t", "i", "t", "u", "t", "i", "o", "n", "s", ",",
       " ", "p", "a", "r", "t", "i", "c", "u", "l", "a", "r", "l", "y", " ", "i", "n",
       " ", "1", "9", "t", "h", "-", "c", "e", "n", "t", "u", "r", "y", " ", "B", "r",
       "i", "t", "a", "i", "n", "." >>

\* src/src/App.tsx:48  (185 characters)
sampleHard4 ==
    << "S", "u", "p", "e", "r", "c", "a", "l", "i", "f", "r", "a", "g", "i", "l", "i",
       "s", "t", "i", "c", "e", "x", "p", "i", "a", "l", "i", "d", "o", "c", "i", "o",
       "u", "s", " ", "e", "x", "e", "m", "p", "l", "i", "f", "i", "e", "s", " ", "t",
       "h", "e", " ", "c", "r", "e", "a", "t", "i", "v", "e", " ", "p", "o", "t", "e",
       "n", "t", "i", "a", "l", " ", "o", "f", " ", "l", "i", "n", "g", "u", "i", "s",
       "t", "i", "c", " ", "c", "o", "n", "s", "t", "r", "u", "c", "t", "i", "o", "n",
       " ", "t", "h", "r", "o", "u", "g", "h", " ", "m", "o", "r", "p", "h", "o", "l",
       "o", "g", "i", "c", "a", "l", " ", "b", "l", "e", "n", "d", "i", "n", "g", ",",
       " ", "d", "e", "m", "o", "n", "s", "t", "r", "a", "t", "i", "n", "g", " ", "h",
       "o", "w", " ", "l", "a", "n", "g", "u", "a", "g", "e", " ", "c", "a", "n", " ",
       "b", "e", " ", "p", "l", "a", "y", "f", "u", "l", "l", "y", " ", "m", "a", "n",
       "i", "p", "u", "l", "a", "t", "e", "d", "." >>

\* src/src/App.tsx:51  (97 characters)
sampleCustom1 ==
    << "C", "r", "e", "a", "t", "e", " ", "y", "o", "u", "r", " ", "o", "w", "n", " ",
       "c", "u", "s", "t", "o", "m", " ", "t", "e", "x", "t", " ", "b", "y", " ", "s",
       "e", "l", "e", "c", "t", "i", "n", "g", " ", "t", "h", "i", "s", " ", "o", "p",
       "t", "i", "o", "n", " ", "a", "n", "d", " ", "e", "n", "t", "e", "r", "i", "n",
       "g", " ", "y", "o", "u", "r", " ", "p", "r", "e", "f", "e", "r", "r", "e", "d",
       " ", "t", "y", "p", "i", "n", "g", " ", "m", "a", "t", "e", "r", "i", "a", "l",
       "." >>

\* const sampleTexts = { easy: [...], medium: [...], hard: [...], custom: [...] }
sampleTexts(key) ==
    CASE key = "easy"   -> << sampleEasy1, sampleEasy2, sampleEasy3, sampleEasy4 >>
      [] key = "medium" -> << sampleMedium1, sampleMedium2, sampleMedium3, sampleMedium4 >>
      [] key = "hard"   -> << sampleHard1, sampleHard2, sampleHard3, sampleHard4 >>
      [] key = "custom" -> << sampleCustom1 >>

(***************************************************************************)
(* The state.  The first group is the component's useState/useRef state,   *)
(* under the names of the source.  now is the clock Date.now() reads and   *)
(* timers the intervals the browser holds live (each with the test that    *)
(* created it).  session, sessionDifficulty, completions and lastEvent are  *)
(* history variables: the number of tests started, the difficulty selected *)
(* when the last of them started, the number of tests completed and the    *)
(* event handled last; no action reads them.                               *)
(***************************************************************************)
VARIABLES testText, customText, userInput, testState, difficulty, testMode,
          targetTime, targetWords, startTime, currentTime, wpmHistory,
          stats, testResults, timerRef,
          now, timers,
          session, sessionDifficulty, completions, lastEvent

config == << customText, difficulty, testMode, targetTime, targetWords >>
vars == << testText, customText, userInput, testState, difficulty, testMode,
           targetTime, targetWords, startTime, currentTime, wpmHistory,
           stats, testResults, timerRef, now, timers,
           session, sessionDifficulty, completions, lastEvent >>

(***************************************************************************)
(* Arithmetic of the code.                                                 *)
(***************************************************************************)
Min(a, b) == IF a <= b THEN a ELSE b
Max(a, b) == IF a >= b THEN a ELSE b

\* Math.floor(a / b) in the place of Math.round(a / b).
Round_truncating(a, b) == a \div b

\* Math.round(a / b) for b > 0: the nearest integer, a half rounded up.
Round(a, b) == (2 * a + b) \div (2 * b)

\* Math.floor(timeElapsed), timeElapsed = el / 1000
FloorSeconds(el) == el \div 1000

(***************************************************************************)
(* generateText                                                            *)
(***************************************************************************)
RECURSIVE trimStart(_)
trimStart(s) == IF s # << >> /\ Head(s) = " " THEN trimStart(Tail(s)) ELSE s

RECURSIVE trimEnd(_)
trimEnd(s) ==
    IF s # << >> /\ s[Len(s)] = " " THEN trimEnd(SubSeq(s, 1, Len(s) - 1)) ELSE s

\* String.prototype.trim, over the characters of the model (the space is
\* the only white space among them)
trim(s) == trimEnd(trimStart(s))

\* generateText testing customText instead of customText.trim() on line 86.
generateText_untrimmedTest(d, custom) ==
    IF d = "custom" /\ custom # << >>
    THEN { trim(custom) }
    ELSE LET texts == IF d \in Difficulties THEN sampleTexts(d)
                                             ELSE sampleTexts("medium")
         IN  { texts[i] : i \in 1..Len(texts) }

\* The texts generateText(d) can return: Math.random picks any entry.
generateText(d, custom) ==
    IF d = "custom" /\ trim(custom) # << >>
    THEN { trim(custom) }
    ELSE LET texts == IF d \in Difficulties THEN sampleTexts(d)
                                             ELSE sampleTexts("medium")
         IN  { texts[i] : i \in 1..Len(texts) }

(***************************************************************************)
(* calculateStats                                                          *)
(***************************************************************************)
\* the branch taken on i < text.length alone, the characters not compared
isCorrectAt_anyChar(input, text, i) == i < Len(text)

\* The for loop of calculateStats: index i (0-based, as in the code) of the
\* input takes the first branch when i < text.length and the characters agree.
isCorrectAt(input, text, i) == i < Len(text) /\ input[i + 1] = text[i + 1]

\* the loop counting as incorrect only the characters that differ from the
\* text, not those typed past its end
scoreChars_dropsOverflow(input, text) ==
    LET indices == 0..(Len(input) - 1)
    IN  << Cardinality({ i \in indices : isCorrectAt(input, text, i) }),
           Cardinality({ i \in indices : i < Len(text) /\ ~isCorrectAt(input, text, i) }) >>

\* << correctChars, incorrectChars >> when the loop ends
scoreChars(input, text) ==
    LET indices == 0..(Len(input) - 1)
    IN  << Cardinality({ i \in indices : isCorrectAt(input, text, i) }),
           Cardinality({ i \in indices : ~isCorrectAt(input, text, i) }) >>

RECURSIVE sumWpm(_, _)
sumWpm(wpmHist, i) ==
    IF i > Len(wpmHist) THEN 0 ELSE wpmHist[i].wpm + sumWpm(wpmHist, i + 1)

RECURSIVE sumSquares(_, _)
sumSquares(wpmHist, i) ==
    IF i > Len(wpmHist) THEN 0
    ELSE wpmHist[i].wpm * wpmHist[i].wpm + sumSquares(wpmHist, i + 1)

\* consistencyOf with 0 as the value for fewer than two samples (the value
\* of the initial stats, line 75) instead of 100.
consistencyOf_defaultZero(wpmHist) ==
    IF Len(wpmHist) > 1
    THEN LET n == Len(wpmHist)
             S == sumWpm(wpmHist, 1)
             Q == sumSquares(wpmHist, 1)
             reached == { k \in 0..100 :
                            16 * (n * Q - S * S) <= n * n * (201 - 2 * k) * (201 - 2 * k) }
         IN  IF reached = {} THEN 0
             ELSE CHOOSE k \in reached : k + 1 \notin reached
    ELSE 0

\* Math.round(Math.max(0, Math.min(100, 100 - stdDev * 2))) for more than one
\* sample, 100 otherwise.  With n samples of sum S and sum of squares Q the
\* variance is (n*Q - S*S)/n^2, and Math.round(100 - 2*stdDev) >= k exactly
\* when 4*stdDev <= 201 - 2k, that is 16*(n*Q - S*S) <= n^2 * (201 - 2k)^2:
\* the result is the largest such k of 0..100, and 0 when there is none.
consistencyOf(wpmHist) ==
    IF Len(wpmHist) > 1
    THEN LET n == Len(wpmHist)
             S == sumWpm(wpmHist, 1)
             Q == sumSquares(wpmHist, 1)
             reached == { k \in 0..100 :
                            16 * (n * Q - S * S) <= n * n * (201 - 2 * k) * (201 - 2 * k) }
         IN  IF reached = {} THEN 0
             ELSE CHOOSE k \in reached : k + 1 \notin reached
    ELSE 100

\* el is timeElapsed in milliseconds; accuracy is in hundredths of a percent.
\* Lines 105-112 of the source repeat the first lines of handleInputChange
\* in the middle of this function; the function is read without them (the
\* timeElapsed they would compute is the one handleInputChange passes).
calculateStats(input, text, el, wpmHist) ==
    LET totalChars == Len(input)
        score == scoreChars(input, text)
        correctChars == score[1]
        incorrectChars == score[2]
        accuracy == IF totalChars > 0 THEN Round(correctChars * 10000, totalChars) ELSE 0
        grossWpm == IF el > 0 THEN Round(totalChars * 12000, el) ELSE 0
        netWpm == IF el > 0
                  THEN Max(0, Round(grossWpm * el - incorrectChars * 60000, el))
                  ELSE Max(0, grossWpm)
    IN  [ wpm |-> netWpm,
          rawWpm |-> grossWpm,
          accuracy |-> accuracy,
          correctChars |-> correctChars,
          incorrectChars |-> incorrectChars,
          totalChars |-> totalChars,
          timeElapsed |-> el,
          consistency |-> consistencyOf(wpmHist) ]

(***************************************************************************)
(* handleInputChange: its parts.                                           *)
(***************************************************************************)
\* updateWpmHistory without the comparison with the time of the last sample.
updateWpmHistory_everyInput(wpmHist, el, length) ==
    IF /\ el > 0
       /\ FloorSeconds(el) % 2 = 0
    THEN Append(wpmHist, [ time |-> FloorSeconds(el), wpm |-> Round(length * 12000, el) ])
    ELSE wpmHist

\* "Update WPM history every 2 seconds"
updateWpmHistory(wpmHist, el, length) ==
    IF /\ el > 0
       /\ FloorSeconds(el) % 2 = 0
       /\ (wpmHist = << >> \/ FloorSeconds(el) # wpmHist[Len(wpmHist)].time)
    THEN Append(wpmHist, [ time |-> FloorSeconds(el), wpm |-> Round(length * 12000, el) ])
    ELSE wpmHist

\* value.split(' '): the tokens between the separators, the empty ones
\* included.  separators(value) are the indices (1-based) of the spaces, and
\* separatorAt(seps, length, k) is the k-th of them, 0 for k = 0 and
\* length + 1 past the last one.
separators(value) == { i \in 1..Len(value) : value[i] = " " }

separatorAt(seps, length, k) ==
    IF k = 0 THEN 0
    ELSE IF k > Cardinality(seps) THEN length + 1
    ELSE CHOOSE i \in seps : Cardinality({ j \in seps : j <= i }) = k

\* a split on runs of spaces, which yields no empty token: the k-th token
\* starts at the k-th character that follows a space or starts the value
split_onRuns(value) ==
    LET starts == { i \in 1..Len(value) :
                      value[i] # " " /\ (i = 1 \/ value[i - 1] = " ") }
        startAt(k) == CHOOSE i \in starts : Cardinality({ j \in starts : j <= i }) = k
        endOf(i) == IF \E j \in (i + 1)..Len(value) : value[j] = " "
                    THEN (CHOOSE j \in (i + 1)..Len(value) :
                              /\ value[j] = " "
                              /\ \A h \in (i + 1)..(j - 1) : value[h] # " ") - 1
                    ELSE Len(value)
    IN  [ k \in 1..Cardinality(starts) |-> SubSeq(value, startAt(k), endOf(startAt(k))) ]

split(value) ==
    LET seps == separators(value)
    IN  [ k \in 1..(Cardinality(seps) + 1) |->
            SubSeq(value, separatorAt(seps, Len(value), k - 1) + 1,
                          separatorAt(seps, Len(value), k) - 1) ]

\* the quote mode completing on value.length >= testText.length
isCompleted_atLeast(value, mode, text, el, tTime, tWords) ==
    \/ mode = "quote" /\ Len(value) >= Len(text)
    \/ mode = "time" /\ el >= tTime * 1000
    \/ mode = "words" /\ Len(split(value)) >= tWords

\* the time mode completing on timeElapsed > targetTime
isCompleted_strictTime(value, mode, text, el, tTime, tWords) ==
    \/ mode = "quote" /\ Len(value) = Len(text)
    \/ mode = "time" /\ el > tTime * 1000
    \/ mode = "words" /\ Len(split(value)) >= tWords

\* "Check completion conditions"
isCompleted(value, mode, text, el, tTime, tWords) ==
    \/ mode = "quote" /\ Len(value) = Len(text)
    \/ mode = "time" /\ el >= tTime * 1000
    \/ mode = "words" /\ Len(split(value)) >= tWords

\* pushResult without the .slice(0, 20)
pushResult_unbounded(result, prev) == << result >> \o prev

\* [result, ...prev].slice(0, 20)
pushResult(result, prev) ==
    SubSeq(<< result >> \o prev, 1, Min(Len(prev) + 1, HistoryLimit))

\* { ...currentStats, timestamp: new Date(), difficulty, textLength }
makeResult(currentStats, timestamp, diff, textLength) ==
    [ wpm |-> currentStats.wpm,
      rawWpm |-> currentStats.rawWpm,
      accuracy |-> currentStats.accuracy,
      correctChars |-> currentStats.correctChars,
      incorrectChars |-> currentStats.incorrectChars,
      totalChars |-> currentStats.totalChars,
      timeElapsed |-> currentStats.timeElapsed,
      consistency |-> currentStats.consistency,
      timestamp |-> timestamp,
      difficulty |-> diff,
      textLength |-> textLength ]

(***************************************************************************)
(* The timer: setInterval and clearInterval.                               *)
(***************************************************************************)
timerIds == { t.id : t \in timers }

\* The handle setInterval returns: one no live interval has, and not the one
\* timerRef still holds.
newTimerId ==
    CHOOSE id \in 1..(Cardinality(timers) + 2) :
        /\ id \notin timerIds \cup {timerRef}
        /\ \A j \in 1..(id - 1) : j \in timerIds \cup {timerRef}

\* timerRef.current = setInterval(...)
setInterval(owner) == timers \cup { [ id |-> newTimerId, session |-> owner ] }

\* if (timerRef.current) clearInterval(timerRef.current); timerRef is 0 for null
clearInterval == { t \in timers : t.id # timerRef }

(***************************************************************************)
(* Init: the state of the component when mounted.                          *)
(***************************************************************************)
initialStats ==
    [ wpm |-> 0, rawWpm |-> 0, accuracy |-> 0, correctChars |-> 0,
      incorrectChars |-> 0, totalChars |-> 0, timeElapsed |-> 0, consistency |-> 0 ]

Init ==
    /\ testText = << >>
    /\ customText = << >>
    /\ userInput = << >>
    /\ testState = "idle"
    /\ difficulty = "medium"
    /\ testMode = "quote"
    /\ targetTime = 60
    /\ targetWords = 50
    /\ startTime = 0
    /\ currentTime = 0
    /\ wpmHistory = << >>
    /\ stats = initialStats
    /\ testResults = << >>
    /\ timerRef = 0
    /\ now = 0
    /\ timers = {}
    /\ session = 0
    /\ sessionDifficulty = ""
    /\ completions = 0
    /\ lastEvent = "mount"

(***************************************************************************)
(* The handlers.  Each is enabled where the markup lets the user reach it. *)
(***************************************************************************)
\* startTest without setUserInput('') (line 146): what resetTest has cleared
\* stays cleared, what a completed test has left stays.
startTest_keepsInput ==
    /\ testState \in {"idle", "completed"}
    /\ \E newText \in generateText(difficulty, customText) : testText' = newText
    /\ wpmHistory' = << >>
    /\ testState' = "active"
    /\ startTime' = now
    /\ currentTime' = now
    /\ timerRef' = newTimerId
    /\ timers' = setInterval(session + 1)
    /\ session' = session + 1
    /\ sessionDifficulty' = difficulty
    /\ lastEvent' = "start"
    /\ UNCHANGED << config, userInput, stats, testResults, now, completions >>

\* startTest offered in every state: the handler itself has no test of
\* testState.
startTest_anyState ==
    /\ \E newText \in generateText(difficulty, customText) : testText' = newText
    /\ userInput' = << >>
    /\ wpmHistory' = << >>
    /\ testState' = "active"
    /\ startTime' = now
    /\ currentTime' = now
    /\ timerRef' = newTimerId
    /\ timers' = setInterval(session + 1)
    /\ session' = session + 1
    /\ sessionDifficulty' = difficulty
    /\ lastEvent' = "start"
    /\ UNCHANGED << config, stats, testResults, now, completions >>

\* "Start Test" (rendered when idle) and "Try Again" (rendered when completed).
\* Its two calls of Date.now() read the same millisecond.
startTest ==
    /\ testState \in {"idle", "completed"}
    /\ \E newText \in generateText(difficulty, customText) : testText' = newText
    /\ userInput' = << >>
    /\ wpmHistory' = << >>
    /\ testState' = "active"
    /\ startTime' = now
    /\ currentTime' = now
    /\ timerRef' = newTimerId
    /\ timers' = setInterval(session + 1)
    /\ session' = session + 1
    /\ sessionDifficulty' = difficulty
    /\ lastEvent' = "start"
    /\ UNCHANGED << config, stats, testResults, now, completions >>

\* pauseTest leaving the interval running when it pauses
pauseTest_keepsTimer ==
    /\ testState \in {"active", "paused"}
    /\ IF testState = "active"
       THEN /\ testState' = "paused"
            /\ timers' = timers
            /\ timerRef' = timerRef
            /\ lastEvent' = "pause"
       ELSE /\ testState' = "active"
            /\ timerRef' = newTimerId
            /\ timers' = setInterval(session)
            /\ lastEvent' = "resume"
    /\ UNCHANGED << config, testText, userInput, startTime, currentTime, wpmHistory,
                    stats, testResults, now, session, sessionDifficulty, completions >>

\* pauseTest that, on resume, moves startTime forward by the time since the
\* last tick, which leaves the time spent paused out of the elapsed time.
pauseTest_excludesPause ==
    /\ testState \in {"active", "paused"}
    /\ IF testState = "active"
       THEN /\ testState' = "paused"
            /\ timers' = clearInterval
            /\ timerRef' = timerRef
            /\ startTime' = startTime
            /\ lastEvent' = "pause"
       ELSE /\ testState' = "active"
            /\ timerRef' = newTimerId
            /\ timers' = setInterval(session)
            /\ startTime' = startTime + (now - currentTime)
            /\ lastEvent' = "resume"
    /\ UNCHANGED << config, testText, userInput, currentTime, wpmHistory,
                    stats, testResults, now, session, sessionDifficulty, completions >>

\* "Pause" and Escape (when active), "Resume Test" (rendered when paused)
pauseTest ==
    /\ testState \in {"active", "paused"}
    /\ IF testState = "active"
       THEN /\ testState' = "paused"
            /\ timers' = clearInterval
            /\ timerRef' = timerRef
            /\ lastEvent' = "pause"
       ELSE /\ testState' = "active"
            /\ timerRef' = newTimerId
            /\ timers' = setInterval(session)
            /\ lastEvent' = "resume"
    /\ UNCHANGED << config, testText, userInput, startTime, currentTime, wpmHistory,
                    stats, testResults, now, session, sessionDifficulty, completions >>

\* resetTest without its clearInterval
resetTest_keepsTimer ==
    /\ testState \in {"active", "paused", "completed"}
    /\ testState' = "idle"
    /\ userInput' = << >>
    /\ currentTime' = 0
    /\ wpmHistory' = << >>
    /\ timers' = timers
    /\ lastEvent' = "reset"
    /\ UNCHANGED << config, testText, startTime, stats, testResults, timerRef, now,
                    session, sessionDifficulty, completions >>

\* "Reset" (rendered when active or completed), "End Test" (when paused),
\* "New Test" (when completed)
resetTest ==
    /\ testState \in {"active", "paused", "completed"}
    /\ testState' = "idle"
    /\ userInput' = << >>
    /\ currentTime' = 0
    /\ wpmHistory' = << >>
    /\ timers' = clearInterval
    /\ lastEvent' = "reset"
    /\ UNCHANGED << config, testText, startTime, stats, testResults, timerRef, now,
                    session, sessionDifficulty, completions >>

\* handleInputChange past its first line: the test is active.
applyInput(value) ==
    LET el == currentTime - startTime
        currentStats == calculateStats(value, testText, el, wpmHistory)
        result == makeResult(currentStats, now, difficulty, Len(testText))
    IN  /\ userInput' = value
        /\ wpmHistory' = updateWpmHistory(wpmHistory, el, Len(value))
        /\ stats' = currentStats
        /\ IF isCompleted(value, testMode, testText, el, targetTime, targetWords)
           THEN /\ testState' = "completed"
                /\ timers' = clearInterval
                /\ testResults' = pushResult(result, testResults)
                /\ completions' = completions + 1
           ELSE UNCHANGED << testState, timers, testResults, completions >>
        /\ UNCHANGED << config, testText, startTime, currentTime, timerRef, now, session, sessionDifficulty >>

\* handleInputChange without its first line
handleInputChange_unguarded(value) ==
    /\ lastEvent' = "input"
    /\ applyInput(value)

\* handleInputChange returning at once only when the test is idle
handleInputChange_idleOnly(value) ==
    /\ lastEvent' = "input"
    /\ IF testState = "idle"
       THEN UNCHANGED << config, testText, userInput, testState, startTime, currentTime,
                         wpmHistory, stats, testResults, timerRef, now, timers,
                         session, sessionDifficulty, completions >>
       ELSE applyInput(value)

\* handleInputChange returning at once also for a value shorter than the
\* input it holds.
handleInputChange_growOnly(value) ==
    /\ lastEvent' = "input"
    /\ IF testState # "active" \/ Len(value) < Len(userInput)
       THEN UNCHANGED << config, testText, userInput, testState, startTime, currentTime,
                         wpmHistory, stats, testResults, timerRef, now, timers,
                         session, sessionDifficulty, completions >>
       ELSE applyInput(value)

\* onChange of the input, with e.target.value = value
handleInputChange(value) ==
    /\ lastEvent' = "input"
    /\ IF testState # "active"
       THEN UNCHANGED << config, testText, userInput, testState, startTime, currentTime,
                         wpmHistory, stats, testResults, timerRef, now, timers,
                         session, sessionDifficulty, completions >>
       ELSE applyInput(value)

\* A tick that ends a test in the time mode once the target time is reached.
tick_completesTimed(t) ==
    /\ t \in timers
    /\ currentTime' = now
    /\ lastEvent' = "tick"
    /\ IF testState = "active" /\ testMode = "time" /\ now - startTime >= targetTime * 1000
       THEN testState' = "completed" /\ timers' = clearInterval
       ELSE UNCHANGED << testState, timers >>
    /\ UNCHANGED << config, testText, userInput, startTime, wpmHistory,
                    stats, testResults, timerRef, now, session, sessionDifficulty, completions >>

\* The callback of a live interval: setCurrentTime(Date.now())
tick(t) ==
    /\ t \in timers
    /\ currentTime' = now
    /\ lastEvent' = "tick"
    /\ UNCHANGED << config, testText, userInput, testState, startTime, wpmHistory,
                    stats, testResults, timerRef, now, timers, session, sessionDifficulty, completions >>

\* The settings panel: every select is disabled while the test is active.
setTestMode(m) ==
    /\ testState # "active"
    /\ testMode' = m
    /\ lastEvent' = "config"
    /\ UNCHANGED << customText, difficulty, targetTime, targetWords, testText, userInput,
                    testState, startTime, currentTime, wpmHistory, stats, testResults,
                    timerRef, now, timers, session, sessionDifficulty, completions >>

\* The Duration select is rendered in the time mode only.
setTargetTime(seconds) ==
    /\ testState # "active"
    /\ testMode = "time"
    /\ targetTime' = seconds
    /\ lastEvent' = "config"
    /\ UNCHANGED << customText, difficulty, testMode, targetWords, testText, userInput,
                    testState, startTime, currentTime, wpmHistory, stats, testResults,
                    timerRef, now, timers, session, sessionDifficulty, completions >>

\* The Word Count select is rendered in the words mode only.
setTargetWords(count) ==
    /\ testState # "active"
    /\ testMode = "words"
    /\ targetWords' = count
    /\ lastEvent' = "config"
    /\ UNCHANGED << customText, difficulty, testMode, targetTime, testText, userInput,
                    testState, startTime, currentTime, wpmHistory, stats, testResults,
                    timerRef, now, timers, session, sessionDifficulty, completions >>

setDifficulty(d) ==
    /\ testState # "active"
    /\ difficulty' = d
    /\ lastEvent' = "config"
    /\ UNCHANGED << customText, testMode, targetTime, targetWords, testText, userInput,
                    testState, startTime, currentTime, wpmHistory, stats, testResults,
                    timerRef, now, timers, session, sessionDifficulty, completions >>

\* The Custom Text area is rendered when the difficulty is custom and the
\* test idle.
setCustomText(s) ==
    /\ difficulty = "custom"
    /\ testState = "idle"
    /\ customText' = s
    /\ lastEvent' = "config"
    /\ UNCHANGED << difficulty, testMode, targetTime, targetWords, testText, userInput,
                    testState, startTime, currentTime, wpmHistory, stats, testResults,
                    timerRef, now, timers, session, sessionDifficulty, completions >>

\* Time passes: Date.now() grows by d milliseconds.
advanceClock(d) ==
    /\ now' = now + d
    /\ lastEvent' = "clock"
    /\ UNCHANGED << config, testText, userInput, testState, startTime, currentTime,
                    wpmHistory, stats, testResults, timerRef, timers, session, sessionDifficulty,
                    completions >>

(***************************************************************************)
(* Spec: the life cycle.  The user starts, pauses, resumes, resets and     *)
(* types a few characters; the texts are the medium samples, the custom    *)
(* sample and the custom text "ab".                                        *)
(***************************************************************************)
ClockSteps == {500}
Typed == { <<"a">>, <<"a", "b">>, <<"a", "b", "c">> }
EnvModes == {"time"}
EnvDifficulties == {"custom"}
EnvCustomTexts == { <<"a", "b">> }

Next ==
    \/ session < MaxSessions /\ startTest
    \/ pauseTest
    \/ resetTest
    \/ \E value \in Typed : handleInputChange(value)
    \/ \E t \in timers : tick(t)
    \/ \E d \in ClockSteps : now + d <= MaxNow /\ advanceClock(d)
    \/ \E m \in EnvModes : setTestMode(m)
    \/ \E d \in EnvDifficulties : setDifficulty(d)
    \/ \E s \in EnvCustomTexts : setCustomText(s)

Spec == Init /\ [][Next]_vars

(***************************************************************************)
(* SpecHist: many tests in a row.  The user picks the custom text "a",     *)
(* types it, and starts again, from "Try Again" or after "New Test".       *)
(***************************************************************************)
NextHist ==
    \/ session < MaxHistSessions /\ startTest
    \/ pauseTest
    \/ testState = "completed" /\ resetTest
    \/ handleInputChange(<<"a">>)
    \/ now + 1000 <= MaxHistSeconds * 1000 /\ advanceClock(1000)
    \/ setDifficulty("custom")
    \/ setCustomText(<<"a">>)

SpecHist == Init /\ [][NextHist]_vars

(***************************************************************************)
(* SpecStats: one test on a custom text, typed with and without errors     *)
(* while time passes.                                                      *)
(***************************************************************************)
StatsClockSteps == {500, 1500}
StatsTyped ==
    { << >>, <<"a">>, <<"x">>, <<"a", "b">>, <<"a", "b", "x">>, <<"a", "b", "c">>,
      <<"a", "b", "c", "d">>, <<"x", "b", "c", "d", "e">> }
StatsCustomTexts == { <<"a", "b", "c">> }

NextStats ==
    \/ session = 0 /\ customText # << >> /\ startTest
    \/ \E value \in StatsTyped : handleInputChange(value)
    \/ \E t \in timers : tick(t)
    \/ \E d \in StatsClockSteps : now + d <= MaxStatsHalfSeconds * 500 /\ advanceClock(d)
    \/ setTestMode("time")
    \/ setDifficulty("custom")
    \/ \E s \in StatsCustomTexts : setCustomText(s)

SpecStats == Init /\ [][NextStats]_vars

(***************************************************************************)
(* SpecWpm: one test on a custom text of seven characters, with inputs     *)
(* whose errors cost less than their gross speed.                          *)
(***************************************************************************)
\* Each error costs the speed of 5 characters, so the inputs have 6 to 8.
WpmCustomTexts == { <<"a", "b", "c", "d", "e", "f", "g">> }
WpmTyped ==
    { <<"a", "b", "c", "d", "e", "f">>,
      <<"a", "b", "c", "d", "e", "x">>,
      <<"x", "b", "c", "d", "e", "x">>,
      <<"a", "b", "c", "d", "e", "f", "x">>,
      <<"a", "b", "c", "d", "e", "f", "g", "h">> }

NextWpm ==
    \/ session = 0 /\ customText # << >> /\ startTest
    \/ \E value \in WpmTyped : handleInputChange(value)
    \/ \E t \in timers : tick(t)
    \/ \E d \in StatsClockSteps : now + d <= MaxStatsHalfSeconds * 500 /\ advanceClock(d)
    \/ setDifficulty("custom")
    \/ \E s \in WpmCustomTexts : setCustomText(s)

SpecWpm == Init /\ [][NextWpm]_vars

(***************************************************************************)
(* SpecPause: one test in the time mode during which the clock advances,   *)
(* by 5 seconds at a time, only while the test is paused.                  *)
(***************************************************************************)
NextPause ==
    \/ session = 0 /\ startTest
    \/ pauseTest
    \/ handleInputChange(<<"a">>)
    \/ \E t \in timers : tick(t)
    \/ testState = "paused" /\ now + 5000 <= MaxTimedSteps * 5000 /\ advanceClock(5000)
    \/ setTestMode("time")
    \/ setTargetTime(15)

SpecPause == Init /\ [][NextPause]_vars

(***************************************************************************)
(* SpecText: tests started and reset under every difficulty, with custom   *)
(* texts that are empty, blank, padded with spaces, or hold a space.       *)
(***************************************************************************)
TextCustomTexts ==
    { << >>, <<" ">>, <<" ", "a", "b", " ">>, <<"a", " ", "b">> }

NextText ==
    \/ session < MaxSessions /\ startTest
    \/ resetTest
    \/ \E d \in Difficulties : setDifficulty(d)
    \/ \E s \in TextCustomTexts : setCustomText(s)

SpecText == Init /\ [][NextText]_vars

(***************************************************************************)
(* SpecResult: two tests on the custom text "ab", completed with or        *)
(* without an error, during which the user pauses, resumes, resets and     *)
(* uses the Difficulty select wherever it is enabled.                      *)
(***************************************************************************)
ResultTyped == { <<"a">>, <<"a", "b">>, <<"a", "x">> }
ResultDifficulties == {"custom", "hard"}
ResultCustomTexts == { <<"a", "b">> }

NextResult ==
    \/ session < MaxSessions /\ startTest
    \/ pauseTest
    \/ resetTest
    \/ \E value \in ResultTyped : handleInputChange(value)
    \/ \E d \in ResultDifficulties : setDifficulty(d)
    \/ \E s \in ResultCustomTexts : setCustomText(s)

SpecResult == Init /\ [][NextResult]_vars

(***************************************************************************)
(* SpecSamples: one test on the custom text "abcd" while the clock         *)
(* advances by 2 seconds at a time, so that every input after the start    *)
(* falls on an even second.                                                *)
(***************************************************************************)
SampleTyped == { <<"a">>, <<"a", "b">>, <<"a", "b", "c">> }
SampleCustomTexts == { <<"a", "b", "c", "d">> }

NextSamples ==
    \/ session = 0 /\ customText # << >> /\ startTest
    \/ \E value \in SampleTyped : handleInputChange(value)
    \/ \E t \in timers : tick(t)
    \/ now + 2000 <= MaxSampleSteps * 2000 /\ advanceClock(2000)
    \/ setDifficulty("custom")
    \/ \E s \in SampleCustomTexts : setCustomText(s)

SpecSamples == Init /\ [][NextSamples]_vars

(***************************************************************************)
(* SpecSampleLife: as SpecSamples, with pauses, resets and a second test.  *)
(***************************************************************************)
NextSampleLife ==
    \/ session < MaxSessions /\ customText # << >> /\ startTest
    \/ pauseTest
    \/ resetTest
    \/ \E value \in SampleTyped : handleInputChange(value)
    \/ \E t \in timers : tick(t)
    \/ now + 2000 <= MaxSampleSteps * 2000 /\ advanceClock(2000)
    \/ setDifficulty("custom")
    \/ \E s \in SampleCustomTexts : setCustomText(s)

SpecSampleLife == Init /\ [][NextSampleLife]_vars

(***************************************************************************)
(* SpecTimed: one test in the time mode, with a target of 15, 30 or 60     *)
(* seconds, while the clock advances by 7.5 seconds at a time.             *)
(***************************************************************************)
NextTimed ==
    \/ session = 0 /\ startTest
    \/ pauseTest
    \/ handleInputChange(<<"a">>)
    \/ \E t \in timers : tick(t)
    \/ now + 7500 <= MaxTimedSteps * 7500 /\ advanceClock(7500)
    \/ setTestMode("time")
    \/ \E seconds \in {15, 30} : setTargetTime(seconds)

SpecTimed == Init /\ [][NextTimed]_vars

(***************************************************************************)
(* SpecWords: one test in the words mode, with a target of 25 or 50 words. *)
(***************************************************************************)
\* n spaces
spaces(n) == [ i \in 1..n |-> " " ]
\* n one-letter words with one space between them
words(n) == [ i \in 1..(2 * n - 1) |-> IF i % 2 = 1 THEN "a" ELSE " " ]
\* n one-letter words with two spaces after each, and one more word
spacedWords(n) == [ i \in 1..(3 * n + 1) |-> IF i % 3 = 1 THEN "a" ELSE " " ]

WordsTyped ==
    { <<"a">>, <<"a", " ", "b", " ", "c">>, <<"a", " ", " ", "b">>,
      words(24), words(25), spaces(23), spaces(24), spacedWords(12),
      <<" ">> \o words(24), words(24) \o <<" ">>,
      words(49), words(50), spaces(49) }

NextWords ==
    \/ session = 0 /\ startTest
    \/ \E value \in WordsTyped : handleInputChange(value)
    \/ setTestMode("words")
    \/ \E count \in {25} : setTargetWords(count)

SpecWords == Init /\ [][NextWords]_vars

(***************************************************************************)
(* The claims.                                                             *)
(***************************************************************************)

\* C1: the history of results never holds more than 20 entries; the step
\* that completes a test takes it from length n to min(n + 1, 20), puts the
\* new result first and keeps the older ones in their order, so that the
\* last one is dropped when n was 20.
C1_HistoryBounded ==
    [][ /\ Len(testResults') <= 20
        /\ (testState = "active" /\ testState' = "completed") =>
              /\ Len(testResults') = Min(Len(testResults) + 1, 20)
              /\ testResults'[1].timestamp = now'
              /\ testResults'[1].totalChars = Len(userInput')
              /\ \A i \in 2..Len(testResults') : testResults'[i] = testResults[i - 1]
      ]_vars

\* A test has just completed on a full history: the 21st result or a later
\* one is first, and it is newer than the last one kept.
C1_Evicted ==
    /\ completions > 20
    /\ lastEvent = "input"
    /\ testState = "completed"
    /\ Len(testResults) = 20
    /\ testResults[1].timestamp > testResults[20].timestamp


\* C2: a result is created once per test, by the step that takes the test
\* from active to completed: that step adds one result in front of the
\* history, no other step changes the history, and a test that has ended
\* (completed or idle) becomes active again only as a new test.
C2_ResultOncePerSession ==
    [][ /\ (testState = "active" /\ testState' = "completed") =>
              /\ Len(testResults') = Min(Len(testResults) + 1, 20)
              /\ SubSeq(testResults', 2, Len(testResults'))
                    = SubSeq(testResults, 1, Len(testResults') - 1)
        /\ ~(testState = "active" /\ testState' = "completed") =>
              testResults' = testResults
        /\ testState' = "completed" => testState \in {"active", "completed"}
        /\ (testState \in {"idle", "completed"} /\ testState' = "active") =>
              session' = session + 1
        /\ completions' <= session'
      ]_vars

\* The second test has just completed: the history holds the results of two
\* tests.
C2_TwoResults ==
    /\ lastEvent = "input"
    /\ testState = "completed"
    /\ session = 2
    /\ Len(testResults) = 2


\* C3: an interval is live exactly when the test is active, and never more
\* than one; every step that leaves the active state clears it and every
\* step that enters the active state creates a new one, which timerRef holds.
C3_OneTimerIffActive ==
    [][ /\ (timers # {}) <=> (testState = "active")
        /\ (timers' # {}) <=> (testState' = "active")
        /\ Cardinality(timers) <= 1
        /\ Cardinality(timers') <= 1
        /\ (testState = "active" /\ testState' # "active") => timers' = {}
        /\ (testState # "active" /\ testState' = "active") =>
              /\ { t.id : t \in timers' } = {timerRef'}
              /\ timerRef' # timerRef
              /\ timerRef' \notin timerIds
      ]_vars

\* A test paused and resumed: the interval the resume created is the only one.
C3_Resumed ==
    /\ lastEvent = "resume"
    /\ testState = "active"
    /\ Cardinality(timers) = 1
    /\ timerRef = 2

\* C4: no tick comes from a test that has ended.  Every live interval was
\* created by the current test, which is active, so a tick is handled in the
\* active state only; and while a test that was reset or has completed
\* stays so, the last tick time and the rest of its state do not change.
C4_NoTickFromEndedSession ==
    [][ /\ \A t \in timers : t.session = session /\ testState = "active"
        /\ \A t \in timers' : t.session = session' /\ testState' = "active"
        /\ lastEvent' = "tick" => (testState = "active" /\ testState' = "active")
        /\ (testState \in {"idle", "completed"} /\ testState' = testState) =>
              UNCHANGED << currentTime, startTime, testText, userInput, wpmHistory,
                           stats, testResults >>
      ]_vars

\* The first test was reset and time went on; a tick of the second test is
\* handled.
C4_TickOfSecondSession ==
    /\ lastEvent = "tick"
    /\ session = 2
    /\ testResults = << >>
    /\ currentTime = now
    /\ currentTime > startTime

\* C5: an input event that finds the test idle, paused or completed changes
\* neither the input, the WPM history, the statistics, the state nor the
\* results; and while the test stays paused its state is frozen.
C5_InputIgnoredUnlessActive ==
    [][ /\ (lastEvent' = "input" /\ testState # "active") =>
              UNCHANGED << userInput, wpmHistory, stats, testState, testResults >>
        /\ (testState = "paused" /\ testState' = "paused") =>
              UNCHANGED << userInput, wpmHistory, stats, testResults, testText,
                           startTime, currentTime >>
      ]_vars

\* An input event was handled while the test was paused with text typed.
C5_InputWhilePaused ==
    /\ lastEvent = "input"
    /\ testState = "paused"
    /\ userInput # << >>

\* C6: in the quote mode an input handled while the test is active completes
\* it exactly when the length of the input is the length of the text.
C6_QuoteCompletion ==
    [][ (lastEvent' = "input" /\ testState = "active" /\ testMode = "quote") =>
              /\ testState' \in {"active", "completed"}
              /\ testState' = "completed" <=> Len(userInput') = Len(testText)
      ]_vars

\* After a test completed by an input as long as its text, an input longer
\* than the text has left the next test active.
C6_LongerStaysActive ==
    /\ lastEvent = "input"
    /\ testMode = "quote"
    /\ testState = "active"
    /\ Len(userInput) > Len(testText)
    /\ Len(testResults) = 1
    /\ testResults[1].totalChars = testResults[1].textLength


\* C7: in the time mode an input handled while the test is active completes
\* it exactly when the time elapsed at that input, the last tick time minus
\* the start time, is at least targetTime seconds.
C7_TimedCompletion ==
    [][ (lastEvent' = "input" /\ testState = "active" /\ testMode = "time") =>
              /\ testState' \in {"active", "completed"}
              /\ testState' = "completed" <=> currentTime - startTime >= targetTime * 1000
              /\ stats'.timeElapsed = currentTime - startTime
      ]_vars

\* An input has completed a timed test at the very second of its target,
\* later than the last tick.
C7_CompletedAtTarget ==
    /\ lastEvent = "input"
    /\ testMode = "time"
    /\ testState = "completed"
    /\ stats.timeElapsed = targetTime * 1000
    /\ currentTime - startTime = targetTime * 1000
    /\ now > currentTime

\* C8: in the words mode an input handled while the test is active completes
\* it exactly when it holds at least targetWords tokens, a token more than it
\* holds spaces: the empty tokens between adjacent spaces, before a leading
\* and after a trailing space count.  With a target of 3 both "a b c" and
\* "a  b" complete.
C8_WordCountCompletion ==
    /\ [][ (lastEvent' = "input" /\ testState = "active" /\ testMode = "words") =>
              /\ testState' \in {"active", "completed"}
              /\ testState' = "completed" <=>
                    Cardinality({ i \in 1..Len(userInput') : userInput'[i] = " " }) + 1
                        >= targetWords
         ]_vars
    /\ isCompleted(<<"a", " ", "b", " ", "c">>, "words", <<"x">>, 0, 60, 3)
    /\ isCompleted(<<"a", " ", " ", "b">>, "words", <<"x">>, 0, 60, 3)
    /\ ~isCompleted(<<"a", " ", "b">>, "words", <<"x">>, 0, 60, 3)
    /\ split(<<"a", " ", " ", "b">>) = << <<"a">>, << >>, <<"b">> >>
    /\ split(<<" ", "a", " ">>) = << << >>, <<"a">>, << >> >>

\* An input of 25 tokens, empty ones between adjacent spaces among them, has
\* completed a test of 25 words.
C8_CompletedWithEmptyTokens ==
    /\ lastEvent = "input"
    /\ testMode = "words"
    /\ testState = "completed"
    /\ targetWords = 25
    /\ Len(split(userInput)) = 25
    /\ \E k \in 1..25 : split(userInput)[k] = << >>
    /\ \E k \in 1..25 : split(userInput)[k] # << >>


\* The invariant of a statistics record; the accuracy is in hundredths of a
\* percent.
StatsInRange(s) ==
    /\ s.correctChars + s.incorrectChars = s.totalChars
    /\ 0 <= s.accuracy /\ s.accuracy <= 100 * 100
    /\ 0 <= s.consistency /\ s.consistency <= 100

\* C9: the statistics shown and the statistics of every result of the
\* history have correctChars + incorrectChars = totalChars, an accuracy from
\* 0 to 100 and a consistency from 0 to 100.
C9_StatsInvariant ==
    /\ StatsInRange(stats)
    /\ \A i \in 1..Len(testResults) : StatsInRange(testResults[i])

\* A test has completed with right and wrong characters and a consistency
\* computed from at least two samples that differ.
C9_MixedResult ==
    /\ testState = "completed"
    /\ Len(testResults) = 1
    /\ testResults[1].correctChars > 0
    /\ testResults[1].incorrectChars > 0
    /\ testResults[1].accuracy > 0 /\ testResults[1].accuracy < 100 * 100
    /\ testResults[1].consistency > 0 /\ testResults[1].consistency < 100
    /\ stats = [ f \in DOMAIN stats |-> testResults[1][f] ]

\* C10: calculateStats counts a character of the input as correct when it
\* lies within the text and equals the character of the text at its index,
\* and as incorrect otherwise: the incorrect ones are those that differ
\* within the text and all those typed past its end, and totalChars is the
\* length of the input.  The text "abc" typed as "abx" gives 2 correct and
\* 1 incorrect.
C10_CharacterScoring ==
    /\ [][ (lastEvent' = "input" /\ testState = "active") =>
              LET typed == userInput'
                  common == Min(Len(typed), Len(testText))
                  agree == { i \in 1..common : typed[i] = testText[i] }
              IN  /\ stats'.totalChars = Len(typed)
                  /\ stats'.correctChars = Cardinality(agree)
                  /\ stats'.incorrectChars
                        = (common - Cardinality(agree)) + (Len(typed) - common)
         ]_vars
    /\ calculateStats(<<"a", "b", "x">>, <<"a", "b", "c">>, 60000, << >>).correctChars = 2
    /\ calculateStats(<<"a", "b", "x">>, <<"a", "b", "c">>, 60000, << >>).incorrectChars = 1

\* An input longer than the text, with a wrong character within the text,
\* was scored.
C10_WrongAndPastEnd ==
    /\ lastEvent = "input"
    /\ testState = "active"
    /\ Len(userInput) > Len(testText)
    /\ stats.totalChars = Len(userInput)
    /\ stats.correctChars > 0
    /\ stats.incorrectChars > Len(userInput) - Len(testText)


\* C11.  Degenerate inputs give defined values: a snapshot computed at an
\* elapsed time that is not positive has rawWpm 0 and wpm 0 (so the error
\* rate subtracted from rawWpm is 0 too), a snapshot of an empty input has
\* accuracy 0, and a snapshot computed from fewer than two samples has
\* consistency 100.  Every division of calculateStats and of the sampling
\* step is evaluated by the model with the divisor the code uses, so a zero
\* divisor would stop the check with an evaluation error.
C11_DegenerateInputs ==
    /\ [][ lastEvent' = "input" /\ testState = "active" =>
             /\ stats'.timeElapsed = currentTime - startTime
             /\ stats'.timeElapsed <= 0 => stats'.rawWpm = 0 /\ stats'.wpm = 0
             /\ userInput' = << >> => stats'.accuracy = 0 /\ stats'.totalChars = 0
             /\ Len(wpmHistory) < 2 => stats'.consistency = 100 ]_vars
    /\ \A el \in {-500, 0} :
         \A input \in { << >>, <<"a">>, <<"x", "y">> } :
           LET s == calculateStats(input, <<"a", "b">>, el, << >>)
           IN  /\ s.rawWpm = 0 /\ s.wpm = 0
               /\ s.consistency = 100
               /\ input = << >> => s.accuracy = 0
               /\ updateWpmHistory(<< >>, el, Len(input)) = << >>
    /\ calculateStats(<<"a">>, <<"a">>, 500, << [ time |-> 0, wpm |-> 7 ] >>).consistency = 100

\* An empty value handled at elapsed time 0 with no sample recorded.
C11_EmptyAtTimeZero ==
    /\ lastEvent = "input"
    /\ testState = "active"
    /\ userInput = << >>
    /\ currentTime = startTime
    /\ wpmHistory = << >>
    /\ stats.timeElapsed = 0
    /\ stats.rawWpm = 0 /\ stats.wpm = 0 /\ stats.accuracy = 0
    /\ stats.consistency = 100


\* C12.  For a snapshot computed at a positive elapsed time el (ms), rawWpm
\* is the integer nearest to (length / 5) / (el / 60000), and wpm is the
\* integer nearest to rawWpm - incorrectChars / (el / 60000), or 0 when that
\* is negative: "nearest" is stated by the two inequalities r - 1/2 <= x <
\* r + 1/2 multiplied out.  Every snapshot, the initial one and those in the
\* results included, has 0 <= wpm <= rawWpm.  25 characters in 30 seconds
\* give rawWpm 10.
C12_WpmFormulas ==
    /\ [][ lastEvent' = "input" /\ testState = "active" /\ currentTime > startTime =>
             LET el == currentTime - startTime
                 length == Len(userInput')
                 raw == stats'.rawWpm
                 net == stats'.wpm
                 twiceNetTimesEl == 2 * (raw * el - stats'.incorrectChars * 60000)
             IN  /\ stats'.timeElapsed = el
                 /\ (2 * raw - 1) * el <= 24000 * length
                 /\ 24000 * length < (2 * raw + 1) * el
                 /\ net >= 0
                 /\ twiceNetTimesEl < (2 * net + 1) * el
                 /\ net > 0 => (2 * net - 1) * el <= twiceNetTimesEl ]_vars
    /\ [](/\ 0 <= stats.wpm /\ stats.wpm <= stats.rawWpm
          /\ \A i \in 1..Len(testResults) :
               0 <= testResults[i].wpm /\ testResults[i].wpm <= testResults[i].rawWpm)
    /\ LET text == [ i \in 1..25 |-> "a" ]
       IN  calculateStats(text, text, 30000, << >>).rawWpm = 10

\* A completing input with errors whose net speed is positive and below the
\* gross speed.
C12_NetBelowRaw ==
    /\ lastEvent = "input"
    /\ stats.timeElapsed > 0
    /\ stats.incorrectChars > 0
    /\ 0 < stats.wpm /\ stats.wpm < stats.rawWpm
    /\ testResults # << >>
    /\ testResults[1].wpm = stats.wpm


\* C13.  An input update appends a sample only when the whole seconds elapsed
\* are a positive even number different from the time of the last sample, and
\* the sample appended is (whole seconds elapsed, wpm); so no recorded sample
\* has time 0 or an odd time.  The code tests timeElapsed > 0 (line 202), not
\* Math.floor(timeElapsed) > 0: an input in the first second of a test
\* records a sample with time 0.
C13_SamplesAtPositiveEvenSeconds ==
    [][ /\ wpmHistory' # wpmHistory /\ wpmHistory' # << >> =>
             LET seconds == FloorSeconds(currentTime - startTime)
                 last == wpmHistory'[Len(wpmHistory')]
             IN  /\ lastEvent' = "input"
                 /\ wpmHistory' = Append(wpmHistory, last)
                 /\ last.time = seconds
                 /\ seconds > 0
                 /\ seconds % 2 = 0
                 /\ wpmHistory # << >> => wpmHistory[Len(wpmHistory)].time # seconds
        /\ \A i \in 1..Len(wpmHistory') :
             wpmHistory'[i].time > 0 /\ wpmHistory'[i].time % 2 = 0 ]_vars


\* C14.  A start is taken from idle or from completed only, and from either
\* it gives the same: the test is active, its text is one that the selection
\* can return for the difficulty and custom text, the input and the samples
\* are empty, the start time and the last tick time are both the time of the
\* start (nothing elapsed), exactly one timer runs and it is the one the
\* component holds, and the results are as they were.
C14_StartFromIdleOrCompleted ==
    [][ lastEvent' = "start" =>
          /\ testState \in {"idle", "completed"}
          /\ testState' = "active"
          /\ testText' \in generateText(difficulty, customText)
          /\ testText' # << >>
          /\ userInput' = << >>
          /\ wpmHistory' = << >>
          /\ startTime' = now /\ currentTime' = now
          /\ currentTime' - startTime' = 0
          /\ Cardinality(timers') = 1
          /\ \A t \in timers' : t.id = timerRef' /\ t.session = session'
          /\ testResults' = testResults ]_vars

\* The second test, started ("Try Again") from the completed first test at a
\* later time than the first.
C14_StartedFromCompleted ==
    /\ lastEvent = "start"
    /\ session = 2
    /\ completions = 1
    /\ Len(testResults) = 1
    /\ testState = "active"
    /\ userInput = << >>
    /\ startTime = 500 /\ currentTime = 500
    /\ stats.timeElapsed = 0


\* C15.  A reset taken while the test is active or paused gives the idle
\* state with all of the test's state cleared: the input and the samples
\* empty, the start time and the elapsed time (last tick time - start time)
\* 0, the stats those of a fresh component, no timer running, and the results
\* as they were.  resetTest (lines 179-190) sets currentTime to 0 but leaves
\* startTime and stats as the test left them.
C15_ResetClearsSession ==
    [][ lastEvent' = "reset" /\ testState \in {"active", "paused"} =>
          /\ testState' = "idle"
          /\ userInput' = << >>
          /\ wpmHistory' = << >>
          /\ startTime' = 0
          /\ currentTime' - startTime' = 0
          /\ stats' = initialStats
          /\ timers' = {}
          /\ testResults' = testResults ]_vars


\* C16.  A pause and the resume after it leave the start time, the input and
\* the samples as they were; a tick, which comes only while the test is
\* active, sets the last tick time to the clock, so that the elapsed time of
\* the snapshot of an input is the time of the last tick minus the start time
\* whatever was spent paused.  In SpecPause all the time that passes passes
\* while the test is paused: every millisecond of a snapshot's elapsed time
\* was spent paused, and it completes a test in the time mode.
C16_PausedTimeCounts ==
    /\ [][ /\ lastEvent' \in {"pause", "resume"} =>
                UNCHANGED << startTime, userInput, wpmHistory, currentTime >>
           /\ lastEvent' = "tick" =>
                testState = "active" /\ currentTime' = now /\ startTime' = startTime
           /\ lastEvent' = "input" /\ testState = "active" =>
                /\ stats'.timeElapsed = currentTime - startTime
                /\ testMode = "time" /\ currentTime - startTime >= targetTime * 1000 =>
                     testState' = "completed" ]_vars
    /\ [](session > 0 => startTime = 0)

\* A test in the time mode with target 15 s completed by an input after the
\* resume, with 15 s elapsed, all of them spent paused, and a sample taken at
\* second 10 after an earlier resume.
C16_CompletedByPausedTime ==
    /\ testState = "completed"
    /\ testMode = "time"
    /\ targetTime = 15
    /\ stats.timeElapsed = 15000
    /\ testResults # << >>
    /\ testResults[1].timeElapsed = 15000
    /\ Len(wpmHistory) > 0
    /\ wpmHistory[Len(wpmHistory)].time = 10


\* C17.  The text of a test that starts is, when the difficulty is custom
\* and the custom text has a character other than a space, the custom text
\* from its first to its last such character; otherwise it is one of the
\* sample texts of the difficulty.  A key that is no difficulty selects among
\* the medium samples.  Hence the text of an active test is never empty,
\* also under the custom difficulty with a blank custom text.
C17_TextSelection ==
    /\ [][ lastEvent' = "start" =>
             LET nonBlank == { i \in 1..Len(customText) : customText[i] # " " }
                 first == CHOOSE i \in nonBlank : \A j \in nonBlank : i <= j
                 last == CHOOSE i \in nonBlank : \A j \in nonBlank : j <= i
                 pool == CASE difficulty = "easy" ->
                                { sampleEasy1, sampleEasy2, sampleEasy3, sampleEasy4 }
                           [] difficulty = "medium" ->
                                { sampleMedium1, sampleMedium2, sampleMedium3, sampleMedium4 }
                           [] difficulty = "hard" ->
                                { sampleHard1, sampleHard2, sampleHard3, sampleHard4 }
                           [] difficulty = "custom" -> { sampleCustom1 }
             IN  IF difficulty = "custom" /\ nonBlank # {}
                 THEN testText' = SubSeq(customText, first, last)
                 ELSE testText' \in pool ]_vars
    /\ [](testState = "active" => testText # << >>)
    /\ \A custom \in { << >>, <<" ">>, <<"a">> } :
         generateText("expert", custom)
           = { sampleMedium1, sampleMedium2, sampleMedium3, sampleMedium4 }
    /\ \A d \in Difficulties : \A custom \in { << >>, <<" ">>, <<"a">> } :
         << >> \notin generateText(d, custom)

\* A test started under the custom difficulty with a blank custom text: its
\* text is the sample of the custom pool.
C17_BlankCustomText ==
    /\ lastEvent = "start"
    /\ testState = "active"
    /\ difficulty = "custom"
    /\ customText = <<" ">>
    /\ testText = sampleCustom1


\* The parts of C18.  The result of a completing input holds the fields of
\* the stats computed from that input, the length of the test's text and the
\* time of the completion.
C18_copiesStats ==
    completions' = completions + 1 =>
        /\ testResults' # << >>
        /\ stats' = calculateStats(userInput', testText, currentTime - startTime, wpmHistory)
        /\ \A f \in DOMAIN stats' : testResults'[1][f] = stats'[f]
        /\ testResults'[1].textLength = Len(testText)
        /\ testResults'[1].timestamp = now

\* The result holds the difficulty the test was started with.
C18_sessionDifficulty ==
    completions' = completions + 1 => testResults'[1].difficulty = sessionDifficulty

\* While the test is completed the first result equals the stats.
C18_completedShowsResult ==
    testState = "completed" =>
        /\ testResults # << >>
        /\ \A f \in DOMAIN stats : testResults[1][f] = stats[f]

\* The results change only by a completion, which moves every entry one
\* place down (the last one out when there are HistoryLimit) as it is.
C18_entriesKept ==
    \/ testResults' = testResults
    \/ /\ completions' = completions + 1
       /\ Len(testResults') = Min(Len(testResults) + 1, HistoryLimit)
       /\ \A i \in 2..Len(testResults') : testResults'[i] = testResults[i - 1]

\* C18.  The result put first on a completion is a copy of the stats computed
\* from the completing input, with the length of the test's text and the
\* difficulty of the test (the one it was started with); whenever the test is
\* completed the first result equals the current stats; and no step changes
\* an entry the results already hold.  The difficulty recorded is the one
\* selected at the completion (line 227), which the Difficulty select,
\* enabled while the test is paused, can have changed since the start.
C18_ResultIsFrozenCopy ==
    /\ [][ C18_copiesStats /\ C18_sessionDifficulty /\ C18_entriesKept ]_vars
    /\ [] C18_completedShowsResult


\* C19.  The configuration of a test does not change while the test runs:
\* from a state where the test is active or paused to a next state where it
\* is active or paused (so up to the completion or the reset), the mode, the
\* difficulty, the target time, the target word count and the text are the
\* same; in particular while paused.  The Mode, Duration, Word Count and
\* Difficulty selects are disabled only while the test is active (lines 329,
\* 341, 359, 378): while it is paused they change the configuration.
C19_ConfigFixedDuringTest ==
    [][ (testState \in {"active", "paused"} /\ testState' \in {"active", "paused"}) =>
          /\ testMode' = testMode
          /\ difficulty' = difficulty
          /\ targetTime' = targetTime
          /\ targetWords' = targetWords
          /\ testText' = testText ]_vars


\* C20.  On an input handled while the test is active the sample is taken
\* first and the stats are computed after it: the consistency of the new
\* stats is that of the samples as they are after the update, the sample
\* appended by this update included.  calculateStats is called with the
\* wpmHistory of the render (line 208), which setWpmHistory (line 205) has
\* not changed yet: the sample of this update is left out.
C20_ConsistencyFromUpdatedSamples ==
    [][ (lastEvent' = "input" /\ testState = "active") =>
          stats'.consistency = consistencyOf(wpmHistory') ]_vars


\* C21 as claimed.  From one input update to the next within a test the
\* length of the input never decreases.  The handler stores e.target.value
\* as it comes (lines 195-196), and the field delivers a shorter value after
\* a deletion.
C21_InputNeverShrinks ==
    [][ (lastEvent' = "input" /\ session' = session) =>
          Len(userInput') >= Len(userInput) ]_vars

\* C21, amended.  The input changes only by an input update handled while
\* the test is active, which stores the value of the field whatever its
\* length, shorter ones included, and computes the stats from it at the
\* elapsed time of the update, and by a start or a reset, which empty it.
C21_InputIsLastValue ==
    [][ /\ userInput' # userInput =>
             \/ lastEvent' = "input" /\ testState = "active"
             \/ lastEvent' \in {"start", "reset"} /\ userInput' = << >>
        /\ (lastEvent' = "input" /\ testState = "active") =>
             /\ stats' = calculateStats(userInput', testText, currentTime - startTime,
                                        wpmHistory)
             /\ stats'.totalChars = Len(userInput') ]_vars

\* An active test whose input has one character after a sample was taken, at
\* second 2, of an input of three (18 wpm): the input has shrunk.
C21_ShorterAfterLonger ==
    /\ lastEvent = "input"
    /\ testState = "active"
    /\ Len(userInput) = 1
    /\ stats.totalChars = 1
    /\ currentTime - startTime = 2000
    /\ wpmHistory = << [ time |-> 2, wpm |-> 18 ] >>


\* C22 as claimed.  Every change of testState is one of: idle to active by a
\* start, active to paused by a pause, paused to active by a resume, active
\* to completed by an input, active or paused to idle by a reset, completed
\* to active by a start.  The code also offers resetTest when the test is
\* completed (Reset, New Test, and Tab in the input: lines 484-490, 536-542,
\* 245-246), which takes completed to idle.
C22_DefinedTransitionsOnly ==
    [][ (testState' # testState) =>
          << testState, lastEvent', testState' >> \in
              { << "idle", "start", "active" >>,
                << "active", "pause", "paused" >>,
                << "paused", "resume", "active" >>,
                << "active", "input", "completed" >>,
                << "active", "reset", "idle" >>,
                << "paused", "reset", "idle" >>,
                << "completed", "start", "active" >> } ]_vars

\* C22, amended.  The changes of testState are those of the claim and one
\* more, completed to idle by a reset; completed is entered only from active,
\* by an input that adds a result, and left only by a start or a reset.
C22_TransitionsWithResetFromCompleted ==
    [][ /\ (testState' # testState) =>
             << testState, lastEvent', testState' >> \in
                 { << "idle", "start", "active" >>,
                   << "active", "pause", "paused" >>,
                   << "paused", "resume", "active" >>,
                   << "active", "input", "completed" >>,
                   << "active", "reset", "idle" >>,
                   << "paused", "reset", "idle" >>,
                   << "completed", "start", "active" >>,
                   << "completed", "reset", "idle" >> }
        /\ (testState' = "completed" /\ testState # "completed") =>
             completions' = completions + 1 ]_vars

\* The first test was completed and then reset: the component is idle with
\* the result of the test and no test started since.
C22_ResetFromCompleted ==
    /\ lastEvent = "reset"
    /\ testState = "idle"
    /\ session = 1
    /\ completions = 1
    /\ Len(testResults) = 1
    /\ timers = {}


\* C23.  A tick changes the time of the last tick and nothing else of the
\* component: not testState, not the results, not the stats.  A test is
\* completed by an input step only, and an active test stays active through
\* every step that is not an input, a pause or a reset; so a test in the time
\* mode stays active while ticks carry the elapsed time past the target, and
\* is completed by the next input.
C23_TicksNeverComplete ==
    [][ /\ (lastEvent' = "tick") =>
             /\ currentTime' = now
             /\ UNCHANGED << testState, testResults, stats, userInput, wpmHistory,
                             timers, completions >>
        /\ (testState' = "completed" /\ testState # "completed") =>
             lastEvent' = "input" /\ testState = "active"
        /\ (testState = "active" /\ lastEvent' \notin {"input", "pause", "reset"}) =>
             testState' = "active"
        /\ (/\ lastEvent' = "input" /\ testState = "active" /\ testMode = "time"
            /\ currentTime - startTime >= targetTime * 1000) =>
             testState' = "completed" ]_vars

\* A test in the time mode, target 15 s, still active after a tick at 22.5 s
\* elapsed, with the timer running and no result.
C23_ActivePastTarget ==
    /\ lastEvent = "tick"
    /\ testState = "active"
    /\ testMode = "time"
    /\ targetTime = 15
    /\ currentTime - startTime = 22500
    /\ timers # {}
    /\ testResults = << >>


\* C24.  The times of the samples are even and strictly increasing along
\* the list, so no two samples have the same time; the list changes only by
\* one sample appended at its end by an input handled while the test is
\* active, or by a start or a reset, which empty it.
C24_SampleTimesIncrease ==
    /\ [](/\ \A i \in 1..Len(wpmHistory) : wpmHistory[i].time % 2 = 0
          /\ \A i \in 1..Len(wpmHistory) : \A j \in 1..Len(wpmHistory) :
               i < j => wpmHistory[i].time < wpmHistory[j].time)
    /\ [][ (wpmHistory' # wpmHistory) =>
             \/ /\ lastEvent' = "input"
                /\ testState = "active"
                /\ Len(wpmHistory') = Len(wpmHistory) + 1
                /\ SubSeq(wpmHistory', 1, Len(wpmHistory)) = wpmHistory
             \/ /\ lastEvent' \in {"start", "reset"}
                /\ wpmHistory' = << >> ]_vars

\* Two samples, at seconds 2 and 4, in the second test, after a further
\* input at second 4.
C24_TwoSamples ==
    /\ session = 2
    /\ testState = "active"
    /\ lastEvent = "input"
    /\ Len(wpmHistory) = 2
    /\ wpmHistory[1].time = 2
    /\ wpmHistory[2].time = 4
    /\ stats.consistency < 100

=============================================================================
